---- MODULE Spec2Model ----
(***************************************************************************)
(* Model of netlify/functions/discogsSearch.js: one invocation of          *)
(* exports.handler, cut at its awaits, together with the pure selection    *)
(* and hint-parsing functions it calls.                                    *)
(*                                                                         *)
(* Strings are sequences of tokens.  A URL is its scheme, host labels and  *)
(* path pieces; a title is a sequence of symbols ("x" a word, " " a white  *)
(* space, "(" ")" "-" "by" "LP" the characters and words the regular       *)
(* expressions of the source look for).  An absent property, null and the  *)
(* empty string are all the empty sequence: the source only ever tests     *)
(* them for falsiness.  An optional object is a sequence of length 0 or 1. *)
(***************************************************************************)
EXTENDS Naturals, Sequences, FiniteSets

\* Largest organic_results list the search provider returns in the model.
MaxOrganic == 2

None == <<>>

(***************************************************************************)
(* Regular expressions of the source, on token strings.                    *)
(***************************************************************************)

\* /discogs\.com/i.test(s)
HasDiscogsCom(s) == \E i \in 1..Len(s) : s[i] \in {"discogs.com", "DISCOGS.COM"}

\* /discogs/i.test(s)
HasDiscogs(s) ==
    \E i \in 1..Len(s) : s[i] \in {"discogs.com", "DISCOGS.COM", "Discogs", "discogs"}

IsDigits(t) == t \in {"123", "45", "7", "99"}

\* discogsUrl.match(/\/release\/(\d+)/)
ReleaseMatch(url) ==
    \E i \in 1..(Len(url) - 1) : url[i] = "/release/" /\ IsDigits(url[i + 1])

ReleaseId(url) ==
    url[(CHOOSE i \in 1..(Len(url) - 1) :
            /\ url[i] = "/release/" /\ IsDigits(url[i + 1])
            /\ \A j \in 1..(i - 1) : ~(url[j] = "/release/" /\ IsDigits(url[j + 1]))) + 1]

\* discogsUrl.match(/\/master\/(\d+)/)
MasterMatch(url) ==
    \E i \in 1..(Len(url) - 1) : url[i] = "/master/" /\ IsDigits(url[i + 1])

MasterId(url) ==
    url[(CHOOSE i \in 1..(Len(url) - 1) :
            /\ url[i] = "/master/" /\ IsDigits(url[i + 1])
            /\ \A j \in 1..(i - 1) : ~(url[j] = "/master/" /\ IsDigits(url[j + 1]))) + 1]

\* s.match(/https?:\/\/[^"\\]*discogs\.com[^"\\]*/i) on one string value of the
\* serialized response: no token of the model holds a quote or a backslash, so
\* a match that starts at the scheme runs to the end of the value.
ScanMatches(s) ==
    /\ Len(s) > 1
    /\ s[1] \in {"https://", "http://"}
    /\ \E i \in 2..Len(s) : s[i] \in {"discogs.com", "DISCOGS.COM"}

(***************************************************************************)
(* Result selection.                                                       *)
(***************************************************************************)

\* The predicate of organic.find in pickDiscogsOrganic.
IsDiscogsResult(r) ==
    \/ HasDiscogsCom(r.link)
    \/ HasDiscogsCom(r.displayed_link)
    \/ HasDiscogs(r.source)

\* Array.prototype.find: the first element satisfying the predicate, if any.
\* flags[i] is the predicate's value on the i-th element; 0 when none satisfies it.
FirstIndex(flags) ==
    IF \E i \in 1..Len(flags) : flags[i]
    THEN CHOOSE i \in 1..Len(flags) : flags[i] /\ \A j \in 1..(i - 1) : ~flags[j]
    ELSE 0

\* A slip of pickDiscogsOrganic: the last matching result is returned.
pickDiscogsOrganicLast(organic) ==
    IF \E i \in 1..Len(organic) : IsDiscogsResult(organic[i])
    THEN <<organic[CHOOSE i \in 1..Len(organic) :
                      /\ IsDiscogsResult(organic[i])
                      /\ \A j \in (i + 1)..Len(organic) : ~IsDiscogsResult(organic[j])]>>
    ELSE None

\* pickDiscogsOrganic(organic): organic is an array here (its caller passes
\* serp.organic_results || []).
pickDiscogsOrganic(organic) ==
    LET i == FirstIndex([k \in 1..Len(organic) |-> IsDiscogsResult(organic[k])])
    IN  IF i = 0 THEN None ELSE <<organic[i]>>

\* serp.organic_results || []
OrganicOf(serp) ==
    IF serp.organic_results = None THEN <<>> ELSE serp.organic_results[1]

\* !!serp.organic_results && serp.organic_results.length
HasOrganic(serp) ==
    IF serp.organic_results = None THEN <<"false">> ELSE <<Len(serp.organic_results[1])>>

RECURSIVE ResultStrings(_)
ResultStrings(organic) ==
    IF organic = <<>> THEN <<>>
    ELSE LET r == Head(organic)
         IN  <<r.title, r.link, r.displayed_link, r.thumbnail, r.source>>
                \o ResultStrings(Tail(organic))

\* The string values of JSON.stringify(serp), in the order of the text.
Serialize(serp) == <<serp.other>> \o ResultStrings(OrganicOf(serp))

\* text.match(...) of pickDiscogsFromAny: the leftmost match, if any.
ScanUrl(serp) ==
    LET vals == Serialize(serp)
        i == FirstIndex([k \in 1..Len(vals) |-> ScanMatches(vals[k])])
    IN  IF i = 0 THEN None ELSE <<vals[i]>>

\* pickDiscogsFromAny(serp, debugInfo, prefix), its result: <<hit>> or None.
pickDiscogsFromAny(serp) ==
    LET organicHit == pickDiscogsOrganic(OrganicOf(serp))
        match == ScanUrl(serp)
    IN  IF organicHit # None THEN organicHit
        ELSE IF match # None
             THEN <<[link |-> match[1], displayed_link |-> None, source |-> None,
                     title |-> None, thumbnail |-> None]>>
             ELSE None

\* pickDiscogsFromAny, the entries it writes to debugInfo.
pickDebug(serp, prefix) ==
    LET organicHit == pickDiscogsOrganic(OrganicOf(serp))
        match == ScanUrl(serp)
    IN  IF organicHit # None
        THEN << <<(<<prefix, "DiscogsSource">>), "organic_results">> >>
        ELSE IF match # None
             THEN << <<(<<prefix, "DiscogsSource">>), "json_scan">>,
                     <<(<<prefix, "DiscogsUrlFromScan">>), match[1]>> >>
             ELSE <<>>

\* A slip of pickHintResult: a result with a plain title is passed over for a
\* later one (every candidate is tried until one looks parsable).
pickHintResultTryLater(organic) ==
    LET P(r) == r.link # None /\ ~HasDiscogsCom(r.link)
        Q(r) == P(r) /\ \E k \in 1..Len(r.title) : r.title[k] \in {"by", "BY", "-", "--"}
        i == FirstIndex([k \in 1..Len(organic) |-> Q(organic[k])])
        j == FirstIndex([k \in 1..Len(organic) |-> P(organic[k])])
    IN  IF i # 0 THEN <<organic[i]>> ELSE IF j # 0 THEN <<organic[j]>> ELSE None

\* pickHintResult(organic)
pickHintResult(organic) ==
    LET P(r) == r.link # None /\ ~HasDiscogsCom(r.link)
        i == FirstIndex([k \in 1..Len(organic) |-> P(organic[k])])
    IN  IF i = 0 THEN None ELSE <<organic[i]>>

(***************************************************************************)
(* parseArtistAndTitleFromTitle, on symbol strings.                        *)
(***************************************************************************)

IsWs(c) == c = " "

\* \w: the symbols that stand for words.
IsWordSym(c) == c \in {"x", "by", "BY", "LP"}

\* (LP|Vinyl|Record|CD|Cassette|Album|Blu[- ]?ray|Box Set), one word stands
\* for all of them.
IsNoise(c) == c = "LP"

\* [-\u2013]
DashSyms == {"-", "--"}

\* The end of the white-space run that starts at i: the first index >= i that
\* holds no white space (Len(s) + 1 when the run reaches the end).
RECURSIVE SkipWs(_, _)
SkipWs(s, i) == IF i <= Len(s) /\ IsWs(s[i]) THEN SkipWs(s, i + 1) ELSE i

Sub(s, a, b) == IF a > b THEN <<>> ELSE SubSeq(s, a, b)

\* String.prototype.trim
RECURSIVE TrimRight(_)
TrimRight(s) ==
    IF s # <<>> /\ IsWs(s[Len(s)]) THEN TrimRight(Sub(s, 1, Len(s) - 1)) ELSE s

TrimNothing(s) == s

Trim(s) == TrimRight(Sub(s, SkipWs(s, 1), Len(s)))

\* title.replace(/\s*\([^)]*\)\s*/g, " "), from index i on: at each position
\* the leftmost match is a white-space run, "(" up to the next ")", and the
\* white space after it.
RECURSIVE StripParens(_, _)
StripParens(s, i) ==
    IF i > Len(s) THEN <<>>
    ELSE LET j == SkipWs(s, i)
         IN  IF /\ j <= Len(s)
                /\ s[j] = "("
                /\ \E k \in (j + 1)..Len(s) : s[k] = ")"
             THEN LET k == CHOOSE k \in (j + 1)..Len(s) :
                               s[k] = ")" /\ \A m \in (j + 1)..(k - 1) : s[m] # ")"
                  IN  <<" ">> \o StripParens(s, SkipWs(s, k + 1))
             ELSE <<s[i]>> \o StripParens(s, i + 1)

\* /\s+\b(LP|...)\b.*$/i matches from index i.
NoiseAt(s, i) ==
    /\ i <= Len(s)
    /\ IsWs(s[i])
    /\ LET j == SkipWs(s, i)
       IN  /\ j <= Len(s)
           /\ IsNoise(s[j])
           /\ (j = Len(s) \/ ~IsWordSym(s[j + 1]))

\* base.replace(/\s+\b(LP|...)\b.*$/i, "")
StripNoise(s) ==
    LET P(i) == NoiseAt(s, i)
    IN  IF \E i \in 1..Len(s) : P(i)
        THEN Sub(s, 1, (CHOOSE i \in 1..Len(s) : P(i) /\ \A j \in 1..(i - 1) : ~P(j)) - 1)
        ELSE s

\* ^(g1)\s+SEP\s+(.+?)$ with g1 of length p: white space, the separator, white
\* space, and at least one more character up to the end.
SepAt(s, p, seps) ==
    /\ p + 1 <= Len(s)
    /\ IsWs(s[p + 1])
    /\ LET q == SkipWs(s, p + 1)
       IN  /\ q + 2 <= Len(s)
           /\ s[q] \in seps
           /\ IsWs(s[q + 1])

\* The groups of the match whose lazy first group has length p.
Groups(s, p) ==
    LET q  == SkipWs(s, p + 1)
        r  == SkipWs(s, q + 1)
        \* \s+ is greedy but gives a character back when nothing would be left
        g2 == IF r > Len(s) THEN r - 1 ELSE r
    IN  <<Sub(s, 1, p), Sub(s, g2, Len(s))>>

\* The shortest first group, from min on, for which the pattern matches; 0..Len
\* plus one when none does.
LazyMatch(s, min, seps) ==
    LET P(p) == SepAt(s, p, seps)
    IN  IF \E p \in min..Len(s) : P(p)
        THEN <<CHOOSE p \in min..Len(s) : P(p) /\ \A p2 \in min..(p - 1) : ~P(p2)>>
        ELSE None

\* by, case-insensitive
BySyms == {"by", "BY"}

\* parseArtistAndTitleFromTitle(title): <<[artist, title]>> or None.
parseArtistAndTitleFromTitle(title) ==
    IF title = None THEN None
    ELSE LET base      == Trim(StripNoise(StripParens(title, 1)))
             byMatch   == LazyMatch(base, 0, BySyms)
             dashMatch == LazyMatch(base, 1, DashSyms)
             byG       == Groups(base, byMatch[1])
             dashG     == Groups(base, dashMatch[1])
         IN  IF byMatch # None /\ Trim(byG[1]) # <<>> /\ Trim(byG[2]) # <<>>
             THEN <<[artist |-> Trim(byG[2]), title |-> Trim(byG[1])]>>
             ELSE IF dashMatch # None /\ Trim(dashG[1]) # <<>> /\ Trim(dashG[2]) # <<>>
                  THEN <<[artist |-> Trim(dashG[1]), title |-> Trim(dashG[2])]>>
                  ELSE None

(***************************************************************************)
(* The values the environment supplies: requests, configuration, and the   *)
(* responses of the search provider and of the catalog provider.           *)
(***************************************************************************)

U_release == <<"https://", "www.", "discogs.com", "/release/", "123">>
U_master  == <<"https://", "www.", "DISCOGS.COM", "/master/", "45">>
U_artist  == <<"https://", "www.", "discogs.com", "/artist/", "7">>
U_ebay    == <<"https://", "www.", "ebay.com", "/itm/", "99">>
U_shop    == <<"https://", "shop.", "example.org", "/release/", "123">>
\* a release page reached from its master: both path patterns match
U_both    == <<"https://", "www.", "discogs.com", "/release/", "123", "?from=", "/master/", "45">>
\* search_metadata.google_url of a site:discogs.com search
U_google  == <<"https://", "www.", "google.com", "/search", "?q=", "site:", "discogs.com">>
U_thumb   == <<"https://", "serpapi.com", "/images/", "7">>
U_image   == <<"https://", "i.", "discogs.com", "/img/", "99">>
U_image150 == <<"https://", "i.", "discogs.com", "/img150/", "99">>

D_discogs == <<"www.", "discogs.com", " > ", "release">>

T_plain == <<"x", " ", "x">>
T_by    == <<"x", " ", "by", " ", "x", " ", "(", "LP", ")">>
T_dash  == <<"x", " ", "-", " ", "x">>
T_noise == <<"x", " ", "LP", " ", "by", " ", "x">>
T_catalog == <<"x", " ", "-", " ", "x", " ", "x">>

Result(l, d, s, t, th) ==
    [link |-> l, displayed_link |-> d, source |-> s, title |-> t, thumbnail |-> th]

ResultPool ==
    { Result(U_release, D_discogs, <<"Discogs">>, T_plain, U_thumb),
      Result(U_master, None, None, None, None),
      Result(U_artist, None, None, T_plain, None),
      Result(U_both, None, None, T_dash, None),
      Result(None, D_discogs, None, T_plain, None),
      Result(U_shop, None, <<"Discogs">>, T_dash, U_thumb),
      Result(U_ebay, None, <<"eBay">>, T_by, U_thumb),
      Result(U_ebay, None, None, T_dash, None),
      Result(U_ebay, None, None, T_plain, None),
      Result(U_ebay, None, None, T_noise, None),
      Result(U_ebay, None, None, None, None),
      Result(None, None, None, T_by, None) }

RECURSIVE SeqsUpTo(_, _)
SeqsUpTo(S, n) ==
    IF n = 0 THEN {<<>>}
    ELSE LET shorter == SeqsUpTo(S, n - 1)
         IN  shorter \cup {Append(q, x) : q \in {t \in shorter : Len(t) = n - 1}, x \in S}

\* The JSON bodies of the search provider: organic_results absent or a list,
\* and one string value outside the list (absent, the echoed search URL, or a
\* catalog URL of a knowledge panel).
Serps ==
    [other : {None, U_google, U_release},
     organic_results : {None} \cup {<<l>> : l \in SeqsUpTo(ResultPool, MaxOrganic)}]

\* The JSON body of a non-success answer of the search provider.
ErrorSerp == [other |-> None, organic_results |-> None]

\* How a fetch ends: "ok" (res.ok and a JSON body), "status" (a response with
\* !res.ok), "reject" (fetch rejects: a transport error), "badjson" (res.json()
\* rejects: the body is not JSON), "badshape" (res.ok and a JSON body of a shape
\* the handler cannot read, such as null: reading a property of it throws a
\* TypeError).
SerpResponses ==
    [kind : {"ok"}, serp : Serps]
        \cup [kind : {"status", "reject", "badjson", "badshape"}, serp : {ErrorSerp}]

CatalogJsons ==
    {None} \cup
    {<<[title |-> t, images |-> im]>> :
        t \in {None, T_catalog},
        im \in {<<>>, <<[uri |-> U_image, uri150 |-> U_image150]>>,
                <<[uri |-> None, uri150 |-> U_image150]>>,
                <<[uri |-> None, uri150 |-> None]>>,
                <<[uri |-> None, uri150 |-> None],
                  [uri |-> U_image, uri150 |-> U_image150]>>}}

\* "badshape" here: images: [null], on which img.uri throws a TypeError.
CatalogResponses ==
    [kind : {"ok"}, json : CatalogJsons]
        \cup [kind : {"status", "reject", "badjson", "badshape"}, json : {None}]

\* event.queryStringParameters: null, or an object whose query is absent/empty
\* (None) or a text.
Events ==
    [queryStringParameters : {None} \cup {<<[query |-> q]>> : q \in {None, <<"kind of blue">>}}]

\* process.env: whether each variable is set.
Envs == [SERPAPI_API_KEY : BOOLEAN, DISCOGS_TOKEN : BOOLEAN]

(***************************************************************************)
(* exports.handler                                                         *)
(***************************************************************************)

VARIABLES
    event,          \* the request
    env,            \* process.env
    pc,             \* the await the invocation is suspended at
    searchSource, chosen, discogsUrl, title, coverImage, debugInfo,
    response,       \* the value the handler resolves to: None, or <<[statusCode, body]>>
    lastSerp,       \* the body of the last search answer (serp, serp2, serp3): None or <<body>>
    hist,           \* history: network calls issued, answers received, selections made
    cur,            \* the invocation that is running (0: a single invocation)
    saved,          \* the suspended invocations' own variables, by invocation
    rawTitle,       \* a title handed to parseArtistAndTitleFromTitle on its own
    parsedHint      \* None, or <<what it returned for rawTitle>>

aux == <<cur, saved, rawTitle, parsedHint>>

vars == <<event, env, pc, searchSource, chosen, discogsUrl, title, coverImage,
          debugInfo, response, lastSerp, hist, aux>>

Ev(e, st, k, h, c, a) ==
    [ev |-> e, stage |-> st, kind |-> k, hit |-> h, call |-> c, auth |-> a]

\* A network call issued, with its query or path and whether it carries the
\* optional credential; the way a call ended; what a selection returned; what
\* the hint parse returned.
CallEv(st, c, a)  == Ev("call", st, "", None, c, a)
RecvEv(st, k)     == Ev("recv", st, k, None, <<>>, FALSE)
\* The answer of the catalog provider: a successful one is recorded with the
\* entry it carried.
RecvOf(st, resp)  ==
    IF resp.kind = "ok" THEN Ev("recv", st, "ok", <<resp>>, <<>>, FALSE)
    ELSE RecvEv(st, resp.kind)
PickEv(st, hit)   == Ev("pick", st, "", hit, <<>>, FALSE)
ParseEv(parsed)   == Ev("parse", "hint", "", parsed, <<>>, FALSE)

\* event.queryStringParameters.query || ""
query == event.queryStringParameters[1].query

\* `site:discogs.com ${query}`
primaryGoogleQuery == <<"site:discogs.com ">> \o query

\* const fallbackGoogleQuery = query
fallbackGoogleQuery == query

\* `site:discogs.com "${parsed.artist}" "${parsed.title}"`
hintDiscogsQuery(parsed) ==
    <<"site:discogs.com ", "\"">> \o parsed.artist \o <<"\" \"">> \o parsed.title \o <<"\"">>

\* A slip of googleSearch: a non-success answer is not thrown but parsed.
googleSearchThrowsNoStatus(kind) == kind \in {"reject", "badjson"}

\* googleSearch throws: fetch rejected, !res.ok, or res.json() rejected.
googleSearchThrows(kind) == kind # "ok"

\* fetchDiscogsApi throws: fetch rejected or res.json() rejected; !res.ok
\* returns null.
fetchDiscogsApiThrows(kind) == kind \in {"reject", "badjson"}

\* The handler itself throws a TypeError on the body: serp.organic_results of
\* null (line 134), img.uri of null (line 236).
TypeErrorOn(kind) == kind = "badshape"

\* A slip of the credential test: the key is never found missing.
MissingApiKeyNever(e) == FALSE

\* const apiKey = process.env.SERPAPI_API_KEY; if (!apiKey)
MissingApiKey(e) == ~e.SERPAPI_API_KEY

\* A slip of the fallback test: the fallback stage is always run.
NeedsFallbackAlways(ch) == TRUE

\* if (!chosen), after the primary selection
NeedsFallback(ch) == ch = None

\* A slip: the label of the primary stage is kept in the fallback stage.
FallbackSourceStale == "primary"

\* searchSource = "fallback"
FallbackSource == "fallback"

\* if (discogsToken) discogsHeaders["Authorization"] = ...
UseToken(e) == e.DISCOGS_TOKEN

\* Invocations that run concurrently are given a small part of the responses.
Concurrent == cur # 0

ConcSerpResponses ==
    {[kind |-> "ok", serp |-> [other |-> None, organic_results |-> <<l>>]] :
        l \in {<<Result(U_release, D_discogs, <<"Discogs">>, T_plain, U_thumb)>>,
               <<Result(U_ebay, None, <<"eBay">>, T_by, U_thumb)>>}}
        \cup {[kind |-> "status", serp |-> ErrorSerp]}

ConcCatalogResponses ==
    {[kind |-> "ok", json |-> <<[title |-> T_catalog,
                                 images |-> <<[uri |-> U_image, uri150 |-> U_image150]>>]>>],
     [kind |-> "reject", json |-> None]}

SerpInputs == IF Concurrent THEN ConcSerpResponses ELSE SerpResponses
CatalogInputs == IF Concurrent THEN ConcCatalogResponses ELSE CatalogResponses

Respond(status, body) ==
    /\ response' = <<[statusCode |-> status, body |-> body]>>
    /\ pc' = "done"

CatchRethrows(message) == pc' = "rejected" /\ UNCHANGED response

\* catch (err): 500
Catch(message) == Respond(500, [error |-> "Internal error", details |-> message])

ErrorMessage(kind) ==
    CASE kind = "status"  -> "SerpAPI error"
      [] kind = "reject"  -> "fetch failed"
      [] kind = "badjson" -> "Unexpected token"
      [] kind = "badshape" -> "TypeError"
      [] OTHER -> ""

\* A slip: the catalog title overrides the search title.
MergeTitleCatalogFirst(t, discogsJson) ==
    IF discogsJson # None /\ discogsJson[1].title # None
    THEN discogsJson[1].title ELSE t

\* A slip: the search thumbnail is kept when there is one.
MergeCoverKeepThumbnail(c, discogsJson) ==
    IF c = None /\ discogsJson # None /\ Len(discogsJson[1].images) > 0
    THEN LET img == discogsJson[1].images[1]
         IN  IF img.uri # None THEN img.uri ELSE img.uri150
    ELSE c

\* if (discogsJson) { ... }: the title and cover after the catalog answer.
MergeTitle(t, discogsJson) ==
    IF discogsJson # None /\ t = None /\ discogsJson[1].title # None
    THEN discogsJson[1].title ELSE t

MergeCover(c, discogsJson) ==
    IF discogsJson # None /\ Len(discogsJson[1].images) > 0
    THEN LET img == discogsJson[1].images[1]
         IN  IF img.uri # None THEN img.uri
             ELSE IF img.uri150 # None THEN img.uri150 ELSE c
    ELSE c

\* return { statusCode: 200, ... }
Respond200(ss, url, t, c, dbg) ==
    Respond(200, [query |-> query, searchSource |-> ss,
                  primaryGoogleQuery |-> primaryGoogleQuery, discogsUrl |-> url,
                  title |-> t, coverImage |-> c, debug |-> dbg])

\* A slip: the trace is dropped from the no-match payload.
NoMatchBodyNoTrace(ss, dbg) ==
    [error |-> "No Discogs link found in Google results",
     query |-> query, searchSource |-> ss, debug |-> <<>>]

\* The body of the 404.
NoMatchBody(ss, dbg) ==
    [error |-> "No Discogs link found in Google results",
     query |-> query, searchSource |-> ss, debug |-> dbg]

\* A slip: `if (masterMatch)` for `else if (masterMatch)`.
CatalogCallsBoth(url) ==
    (IF ReleaseMatch(url)
     THEN <<CallEv("catalog", <<"/releases/", ReleaseId(url)>>, UseToken(env))>>
     ELSE <<>>)
    \o (IF MasterMatch(url)
        THEN <<CallEv("catalog", <<"/masters/", MasterId(url)>>, UseToken(env))>>
        ELSE <<>>)

\* if (releaseMatch) ... else if (masterMatch) ...: the catalog calls issued.
CatalogCalls(url) ==
    IF ReleaseMatch(url)
    THEN <<CallEv("catalog", <<"/releases/", ReleaseId(url)>>, UseToken(env))>>
    ELSE IF MasterMatch(url)
         THEN <<CallEv("catalog", <<"/masters/", MasterId(url)>>, UseToken(env))>>
         ELSE <<>>

\* Lines 185-230: from the end of the search stages to the 404, to the await
\* on the catalog provider, or straight to the 200.
AfterSearch(ch, ss, dbg, h) ==
    /\ chosen' = ch
    /\ searchSource' = ss
    /\ debugInfo' = dbg
    /\ IF ch = None \/ ch[1].link = None
       THEN /\ Respond(404, NoMatchBody(ss, dbg))
            /\ hist' = h
            /\ UNCHANGED <<discogsUrl, title, coverImage>>
       ELSE /\ discogsUrl' = ch[1].link
            /\ title' = ch[1].title
            /\ coverImage' = ch[1].thumbnail
            /\ hist' = h \o CatalogCalls(ch[1].link)
            /\ IF CatalogCalls(ch[1].link) # <<>>
               THEN /\ pc' = "awaitCatalog"
                    /\ UNCHANGED response
               ELSE Respond200(ss, ch[1].link, ch[1].title, ch[1].thumbnail, dbg)

Init ==
    /\ event \in Events
    /\ env \in Envs
    /\ pc = "start"
    /\ searchSource = "unset"
    /\ chosen = None
    /\ discogsUrl = None
    /\ title = None
    /\ coverImage = None
    /\ debugInfo = <<>>
    /\ response = None
    /\ lastSerp = None
    /\ hist = <<>>
    /\ cur = 0
    /\ saved = <<>>
    /\ rawTitle = None
    /\ parsedHint = None

\* Lines 105-132: the input and credential tests and the first search call.
Start ==
    /\ pc = "start"
    /\ IF event.queryStringParameters = None
       THEN \* TypeError: cannot read properties of null
            /\ Catch("TypeError")
            /\ UNCHANGED <<searchSource, debugInfo, hist>>
       ELSE IF query = None
       THEN /\ Respond(400, [error |-> "Missing query parameter"])
            /\ UNCHANGED <<searchSource, debugInfo, hist>>
       ELSE IF MissingApiKey(env)
       THEN /\ Respond(500, [error |-> "Missing SERPAPI_API_KEY environment variable"])
            /\ UNCHANGED <<searchSource, debugInfo, hist>>
       ELSE /\ searchSource' = "primary"
            /\ hist' = Append(hist, CallEv("primary", primaryGoogleQuery, TRUE))
            /\ pc' = "awaitPrimary"
            /\ UNCHANGED <<response, debugInfo>>
    /\ UNCHANGED <<event, env, chosen, discogsUrl, title, coverImage, lastSerp, aux>>

\* Lines 132-145: the primary answer, its selection, and the fallback call.
PrimaryResponse ==
    /\ pc = "awaitPrimary"
    /\ \E resp \in SerpInputs :
        /\ lastSerp' = IF googleSearchThrows(resp.kind) \/ TypeErrorOn(resp.kind)
                       THEN lastSerp ELSE <<resp.serp>>
        /\ LET h1   == Append(hist, RecvEv("primary", resp.kind))
               serp == resp.serp
               dbg1 == debugInfo \o << <<(<<"primaryQuery">>), primaryGoogleQuery>>,
                                       <<(<<"primaryHasOrganic">>), HasOrganic(serp)>> >>
                                 \o pickDebug(serp, "primary")
               ch   == pickDiscogsFromAny(serp)
               h2   == Append(h1, PickEv("primary", ch))
           IN  IF googleSearchThrows(resp.kind) \/ TypeErrorOn(resp.kind)
               THEN /\ Catch(ErrorMessage(resp.kind))
                    /\ hist' = h1
                    /\ UNCHANGED <<searchSource, chosen, discogsUrl, title, coverImage,
                                   debugInfo>>
               ELSE IF NeedsFallback(ch)
               THEN /\ chosen' = ch
                    /\ searchSource' = FallbackSource
                    /\ debugInfo' = Append(dbg1, <<(<<"fallbackGoogleQuery">>),
                                                   fallbackGoogleQuery>>)
                    /\ hist' = Append(h2, CallEv("fallback", fallbackGoogleQuery, TRUE))
                    /\ pc' = "awaitFallback"
                    /\ UNCHANGED <<response, discogsUrl, title, coverImage>>
               ELSE AfterSearch(ch, searchSource, dbg1, h2)
    /\ UNCHANGED <<event, env, aux>>

\* Lines 145-167: the fallback answer, its selection, the hint and its parse,
\* and the hint search call.
FallbackResponse ==
    /\ pc = "awaitFallback"
    /\ \E resp \in SerpInputs :
        /\ lastSerp' = IF googleSearchThrows(resp.kind) \/ TypeErrorOn(resp.kind)
                       THEN lastSerp ELSE <<resp.serp>>
        /\ LET h1     == Append(hist, RecvEv("fallback", resp.kind))
               serp2  == resp.serp
               dbg1   == Append(debugInfo, <<(<<"fallbackHasOrganic">>), HasOrganic(serp2)>>)
                             \o pickDebug(serp2, "fallback")
               ch     == pickDiscogsFromAny(serp2)
               h2     == Append(h1, PickEv("fallback", ch))
               hint   == pickHintResult(OrganicOf(serp2))
               dbg2   == dbg1 \o << <<(<<"hintTitle">>), IF hint # None THEN hint[1].title ELSE None>>,
                                    <<(<<"hintLink">>), IF hint # None THEN hint[1].link ELSE None>> >>
               parsed == parseArtistAndTitleFromTitle(hint[1].title)
               dbg3   == Append(dbg2, <<(<<"hintParsed">>), parsed>>)
               h3     == Append(h2, ParseEv(parsed))
           IN  IF googleSearchThrows(resp.kind) \/ TypeErrorOn(resp.kind)
               THEN /\ Catch(ErrorMessage(resp.kind))
                    /\ hist' = h1
                    /\ UNCHANGED <<searchSource, chosen, discogsUrl, title, coverImage,
                                   debugInfo>>
               ELSE IF ch # None
               THEN AfterSearch(ch, searchSource, dbg1, h2)
               ELSE IF hint = None \/ hint[1].title = None
               THEN AfterSearch(ch, searchSource, dbg2, h2)
               ELSE IF parsed = None
               THEN AfterSearch(ch, searchSource, dbg3, h3)
               ELSE /\ chosen' = ch
                    /\ debugInfo' = Append(dbg3, <<(<<"hintDiscogsQuery">>),
                                                   hintDiscogsQuery(parsed[1])>>)
                    /\ hist' = Append(h3, CallEv("hint", hintDiscogsQuery(parsed[1]), TRUE))
                    /\ pc' = "awaitHint"
                    /\ UNCHANGED <<searchSource, response, discogsUrl, title, coverImage>>
    /\ UNCHANGED <<event, env, aux>>

\* Lines 167-181: the answer of the hint search and its selection.
HintResponse ==
    /\ pc = "awaitHint"
    /\ \E resp \in SerpInputs :
        /\ lastSerp' = IF googleSearchThrows(resp.kind) \/ TypeErrorOn(resp.kind)
                       THEN lastSerp ELSE <<resp.serp>>
        /\ LET h1         == Append(hist, RecvEv("hint", resp.kind))
               serp3      == resp.serp
               dbg1       == Append(debugInfo, <<(<<"hintHasOrganic">>), HasOrganic(serp3)>>)
                                 \o pickDebug(serp3, "hint")
               hintChosen == pickDiscogsFromAny(serp3)
               h2         == Append(h1, PickEv("hint", hintChosen))
           IN  IF googleSearchThrows(resp.kind) \/ TypeErrorOn(resp.kind)
               THEN /\ Catch(ErrorMessage(resp.kind))
                    /\ hist' = h1
                    /\ UNCHANGED <<searchSource, chosen, discogsUrl, title, coverImage,
                                   debugInfo>>
               ELSE IF hintChosen # None
               THEN AfterSearch(hintChosen, "hint", dbg1, h2)
               ELSE AfterSearch(chosen, searchSource, dbg1, h2)
    /\ UNCHANGED <<event, env, aux>>

\* Lines 216-251: the answer of the catalog provider, the merge and the 200.
CatalogResponse ==
    /\ pc = "awaitCatalog"
    /\ \E resp \in CatalogInputs :
        LET discogsJson == IF resp.kind = "ok" THEN resp.json ELSE None
            t == MergeTitle(title, discogsJson)
            c == MergeCover(coverImage, discogsJson)
        IN  /\ hist' = Append(hist, RecvOf("catalog", resp))
            /\ IF fetchDiscogsApiThrows(resp.kind) \/ TypeErrorOn(resp.kind)
               THEN /\ Catch(ErrorMessage(resp.kind))
                    /\ UNCHANGED <<title, coverImage>>
               ELSE /\ title' = t
                    /\ coverImage' = c
                    /\ Respond200(searchSource, discogsUrl, t, c, debugInfo)
    /\ lastSerp' = None
    /\ UNCHANGED <<event, env, searchSource, chosen, discogsUrl, debugInfo, aux>>

Next ==
    \/ Start
    \/ PrimaryResponse
    \/ FallbackResponse
    \/ HintResponse
    \/ CatalogResponse

Spec == Init /\ [][Next]_vars

(***************************************************************************)
(* Properties.                                                             *)
(***************************************************************************)

Done == pc = "done"
Status == response[1].statusCode
Body == response[1].body
Ended(code) == response # None /\ Status = code

HistIdx == 1..Len(hist)
IsCall(e, st)  == e.ev = "call" /\ e.stage = st
IsRecv(e, st)  == e.ev = "recv" /\ e.stage = st
IsPick(e, st)  == e.ev = "pick" /\ e.stage = st
IsSearchCall(e) == e.ev = "call" /\ e.stage \in {"primary", "fallback", "hint"}
Found(e)  == e.ev = "pick" /\ e.hit # None
Parsed(e) == e.ev = "parse" /\ e.hit # None
NoCalls == \A i \in HistIdx : hist[i].ev # "call"
HasQuery == event.queryStringParameters # None /\ query # None

\* C1: an invocation that ends in the no-match outcome (404) reports
\* searchSource "none" and carries no canonical URL, title or cover image.
C1_NoMatchReportsNone ==
    Ended(404) =>
        /\ Body.searchSource = "none"
        /\ {"discogsUrl", "title", "coverImage"} \cap DOMAIN Body = {}

\* C2: in every success outcome (200) searchSource names the stage whose
\* search response supplied the chosen result: exactly one selection of the
\* run returned a result, it is the selection of the stage searchSource names,
\* and the canonical URL is that result's link.
C2_SourceNamesSupplyingStage ==
    Ended(200) =>
        /\ Body.searchSource \in {"primary", "fallback", "hint"}
        /\ \A i \in HistIdx :
              Found(hist[i]) =>
                  /\ hist[i].stage = Body.searchSource
                  /\ hist[i].hit[1].link = Body.discogsUrl
        /\ \E i \in HistIdx : Found(hist[i])

C2_Witness ==
    /\ Ended(200)
    /\ Body.searchSource = "hint"
    /\ \E i \in HistIdx : IsPick(hist[i], "fallback")

\* C3: when the Hint-stage search call is answered with a non-success status
\* the invocation ends in the no-match outcome (404), never in a 500.
C3_HintFailureIsNoMatch ==
    (Done /\ \E i \in HistIdx : hist[i] = RecvEv("hint", "status")) => Ended(404)

\* C4: when the Primary or the Fallback search call is answered with a
\* non-success status the invocation ends with 500 and that answer is the last
\* thing that happens: no further search call, no catalog call.
C4_SearchFailureIsFatal ==
    \A i \in HistIdx :
        (hist[i] = RecvEv("primary", "status") \/ hist[i] = RecvEv("fallback", "status"))
            => /\ i = Len(hist)
               /\ Done
               /\ Ended(500)

C4_Witness ==
    /\ Done
    /\ hist # <<>>
    /\ hist[Len(hist)] = RecvEv("fallback", "status")
    /\ Ended(500)

\* C5: once a result with a link is chosen, every failure of the catalog
\* lookup (non-success answer, transport error, unreadable body) is swallowed:
\* the invocation ends with 200, the canonical URL, and the title and cover of
\* the search result.
C5_CatalogFailureSwallowed ==
    (Done /\ \E i \in HistIdx : IsRecv(hist[i], "catalog") /\ hist[i].kind # "ok")
        => /\ Ended(200)
           /\ Body.discogsUrl = chosen[1].link
           /\ Body.title = chosen[1].title
           /\ Body.coverImage = chosen[1].thumbnail

\* C6: a request whose query is empty or missing, a request with no
\* query-string parameters at all included, ends with 400 and makes no network
\* call.
C6_MissingQueryRejected ==
    (Done /\ ~HasQuery) => (Ended(400) /\ NoCalls)

\* C7: with a query present, a missing search credential ends the invocation
\* at once with the missing-credential 500 and no network call; a missing
\* catalog credential causes no error (every 500 has another cause) and the
\* catalog call carries the credential exactly when it is set.
C7_Credentials ==
    /\ (pc # "start" /\ HasQuery /\ ~env.SERPAPI_API_KEY)
          => /\ Done
             /\ Ended(500)
             /\ Body.error = "Missing SERPAPI_API_KEY environment variable"
             /\ hist = <<>>
    /\ \A i \in HistIdx : IsCall(hist[i], "catalog") => hist[i].auth = env.DISCOGS_TOKEN
    /\ (Ended(500) /\ ~env.DISCOGS_TOKEN)
          => \/ ~HasQuery
             \/ ~env.SERPAPI_API_KEY
             \/ hist[Len(hist)].ev = "recv" /\ hist[Len(hist)].kind # "ok"

C7_Witness ==
    /\ Done
    /\ HasQuery
    /\ ~env.SERPAPI_API_KEY
    /\ ~env.DISCOGS_TOKEN
    /\ Ended(500)

\* C8: the no-match outcome (404) is returned only after the Primary and the
\* Fallback selection both ran and returned nothing and, when a hint was
\* parsed, the Hint selection ran and returned nothing too.
C8_NoMatchOnlyWhenExhausted ==
    Ended(404) =>
        /\ \E i \in HistIdx : IsPick(hist[i], "primary") /\ ~Found(hist[i])
        /\ \E i \in HistIdx : IsPick(hist[i], "fallback") /\ ~Found(hist[i])
        /\ (\E i \in HistIdx : Parsed(hist[i]))
              => \E i \in HistIdx : IsPick(hist[i], "hint") /\ ~Found(hist[i])

PathStart == {"/release/", "/master/", "/artist/", "/itm/", "/search", "/images/",
              "/img/", "/img150/", "?q="}

\* The host of a URL: the labels between the scheme and the path.
RECURSIVE HostEnd(_, _)
HostEnd(url, i) ==
    IF i > Len(url) \/ url[i] \in PathStart THEN i - 1 ELSE HostEnd(url, i + 1)

IsCatalogUrl(url) ==
    /\ Len(url) >= 2
    /\ url[1] \in {"https://", "http://"}
    /\ HostEnd(url, 2) >= 2
    /\ url[HostEnd(url, 2)] \in {"discogs.com", "DISCOGS.COM"}

\* C9: in every success outcome the canonical URL is a URL whose host is the
\* catalog provider's.
C9_CanonicalUrlIsCatalogUrl ==
    Ended(200) => IsCatalogUrl(Body.discogsUrl)

\* C10: stages run in sequence and never speculatively: every call is answered
\* before the next is issued; the Fallback call follows a Primary selection
\* that returned nothing, the Hint call a Fallback selection that returned
\* nothing and a parsed hint, the catalog call a selection that returned a
\* result; and after a selection that returned a result no search call is
\* issued.
C10_StagesInSequence ==
    /\ \A i \in HistIdx :
          (hist[i].ev = "call" /\ i < Len(hist)) => IsRecv(hist[i + 1], hist[i].stage)
    /\ \A i \in HistIdx :
          IsCall(hist[i], "fallback") =>
              \E j \in 1..(i - 1) :
                  /\ IsPick(hist[j], "primary") /\ ~Found(hist[j])
                  /\ \E k \in 1..(j - 1) : IsRecv(hist[k], "primary") /\ hist[k].kind = "ok"
    /\ \A i \in HistIdx :
          IsCall(hist[i], "hint") =>
              \E j \in 1..(i - 1) :
                  /\ IsPick(hist[j], "fallback") /\ ~Found(hist[j])
                  /\ \E k \in (j + 1)..(i - 1) : Parsed(hist[k])
    /\ \A i \in HistIdx :
          IsCall(hist[i], "catalog") => \E j \in 1..(i - 1) : Found(hist[j])
    /\ \A i \in HistIdx : \A j \in (i + 1)..Len(hist) :
          Found(hist[i]) => ~IsSearchCall(hist[j])

C10_Witness ==
    /\ Ended(200)
    /\ \E i \in HistIdx : IsCall(hist[i], "hint")
    /\ \E i \in HistIdx : IsCall(hist[i], "catalog")

\* The keys of a trace, and the trace key that records a stage's query.
DebugKeys(dbg) == {dbg[k][1] : k \in 1..Len(dbg)}

TraceKey(st) ==
    CASE st = "primary"  -> <<"primaryQuery">>
      [] st = "fallback" -> <<"fallbackGoogleQuery">>
      [] st = "hint"     -> <<"hintDiscogsQuery">>

PrimaryKeys ==
    {<<"primaryQuery">>, <<"primaryHasOrganic">>, <<"primary", "DiscogsSource">>,
     <<"primary", "DiscogsUrlFromScan">>}

FallbackKeys ==
    {<<"fallbackGoogleQuery">>, <<"fallbackHasOrganic">>, <<"fallback", "DiscogsSource">>,
     <<"fallback", "DiscogsUrlFromScan">>}

HintCandidateKeys == {<<"hintTitle">>, <<"hintLink">>, <<"hintParsed">>}

HintSearchKeys ==
    {<<"hintDiscogsQuery">>, <<"hintHasOrganic">>, <<"hint", "DiscogsSource">>,
     <<"hint", "DiscogsUrlFromScan">>}

\* C11: in every success or no-match outcome the payload carries the trace,
\* the trace records the query of every search call that was issued, and these
\* entries stand in the order of the calls.
C11_TraceCoversIssuedStages ==
    (Ended(200) \/ Ended(404)) =>
        /\ "debug" \in DOMAIN Body
        /\ \A i \in HistIdx :
              IsSearchCall(hist[i]) =>
                  \E k \in 1..Len(Body.debug) :
                      /\ Body.debug[k][1] = TraceKey(hist[i].stage)
                      /\ Body.debug[k][2] = hist[i].call
        /\ \A i \in HistIdx : \A j \in (i + 1)..Len(hist) :
              (IsSearchCall(hist[i]) /\ IsSearchCall(hist[j])) =>
                  \E k \in 1..Len(Body.debug) : \E m \in (k + 1)..Len(Body.debug) :
                      /\ Body.debug[k][1] = TraceKey(hist[i].stage)
                      /\ Body.debug[m][1] = TraceKey(hist[j].stage)

C11_Witness ==
    /\ Ended(404)
    /\ \E i \in HistIdx : IsCall(hist[i], "hint")

PrimaryFound == \E i \in HistIdx : IsPick(hist[i], "primary") /\ Found(hist[i])
NothingFound == \A i \in HistIdx : ~Found(hist[i])
NoHintParsed == \A i \in HistIdx : ~Parsed(hist[i])

FetchedEntry ==
    IF \E i \in HistIdx : IsRecv(hist[i], "catalog") /\ hist[i].kind = "ok"
    THEN hist[CHOOSE i \in HistIdx : IsRecv(hist[i], "catalog")].hit[1].json
    ELSE None

\* C13: in a success outcome the title is the chosen search result's title
\* when it has one, else the catalog entry's title when an entry was fetched
\* and has one, else null.
C13_TitlePrefersSearch ==
    Ended(200) =>
        Body.title = IF chosen[1].title # None THEN chosen[1].title
                     ELSE IF FetchedEntry # None THEN FetchedEntry[1].title
                     ELSE None

C13_Witness ==
    /\ Ended(200)
    /\ chosen[1].title # None
    /\ FetchedEntry # None
    /\ FetchedEntry[1].title # None
    /\ FetchedEntry[1].title # chosen[1].title

HasImages == FetchedEntry # None /\ Len(FetchedEntry[1].images) > 0

\* img.uri || img.uri150 of the first image
FirstImageUrl ==
    LET img == FetchedEntry[1].images[1]
    IN  IF img.uri # None THEN img.uri ELSE img.uri150

\* C14: in a success outcome the cover is the URL of the first image of the
\* fetched catalog entry whenever the entry has images; the search thumbnail
\* is used only when no entry was fetched or the entry has no images.
C14_CoverPrefersCatalog ==
    Ended(200) =>
        Body.coverImage = IF HasImages THEN FirstImageUrl ELSE chosen[1].thumbnail

\* C14 as amended: the thumbnail is also used when the first image of the
\* entry carries neither uri nor uri150.
C14_CoverPrefersCatalogUrl ==
    Ended(200) =>
        Body.coverImage = IF HasImages /\ FirstImageUrl # None THEN FirstImageUrl
                          ELSE chosen[1].thumbnail

C14_Witness ==
    /\ Ended(200)
    /\ HasImages
    /\ FirstImageUrl # None
    /\ chosen[1].thumbnail # None
    /\ Body.coverImage # chosen[1].thumbnail

CallCount(st) == Cardinality({i \in HistIdx : IsCall(hist[i], st)})

\* C15: within one invocation each of the three search queries is sent at
\* most once and the catalog provider is called at most once.
C15_NoRetries ==
    /\ \A st \in {"primary", "fallback", "hint", "catalog"} : CallCount(st) <= 1
    /\ Cardinality({i \in HistIdx : IsSearchCall(hist[i])}) <= 3
    /\ \A i \in HistIdx : \A j \in HistIdx :
          (hist[i].ev = "call" /\ hist[j].ev = "call" /\ hist[i].call = hist[j].call)
              => i = j

C15_Witness ==
    /\ Done
    /\ CallCount("primary") = 1
    /\ CallCount("fallback") = 1
    /\ CallCount("hint") = 1
    /\ CallCount("catalog") = 1
    /\ ReleaseMatch(discogsUrl)
    /\ MasterMatch(discogsUrl)

Min(S) == CHOOSE x \in S : \A y \in S : x <= y
Max(S) == CHOOSE x \in S : \A y \in S : x >= y

\* The latest selection of the run, made on the body in lastSerp.
LastPick == hist[Max({i \in HistIdx : hist[i].ev = "pick"})]
LastOrganic == OrganicOf(lastSerp[1])

\* The organic results that match the catalog domain by link, displayed link
\* or source.
Matching ==
    {k \in 1..Len(LastOrganic) :
        \/ HasDiscogsCom(LastOrganic[k].link)
        \/ HasDiscogsCom(LastOrganic[k].displayed_link)
        \/ HasDiscogs(LastOrganic[k].source)}

\* C17: each selection returns the first organic result, in the provider's
\* order, that matches by link, displayed link or source; only when none
\* matches is the serialized body scanned, and a URL found there comes back as
\* a result with that link and nothing else (title and thumbnail null).
C17_FirstOrganicElseScan ==
    lastSerp # None =>
        IF Matching # {}
        THEN LastPick.hit = <<LastOrganic[Min(Matching)]>>
        ELSE IF \E k \in 1..Len(Serialize(lastSerp[1])) : ScanMatches(Serialize(lastSerp[1])[k])
             THEN /\ LastPick.hit # None
                  /\ LastPick.hit[1] = Result(LastPick.hit[1].link, None, None, None, None)
                  /\ ScanMatches(LastPick.hit[1].link)
                  /\ \E k \in 1..Len(Serialize(lastSerp[1])) :
                        Serialize(lastSerp[1])[k] = LastPick.hit[1].link
             ELSE LastPick.hit = None

C17_Witness ==
    /\ lastSerp # None
    /\ Len(LastOrganic) = 2
    /\ Matching = {1, 2}
    /\ LastOrganic[1] # LastOrganic[2]
    /\ lastSerp[1].other = U_google

\* The results of the fallback body that have a link outside the catalog
\* domain.
Candidates ==
    {k \in 1..Len(LastOrganic) :
        LastOrganic[k].link # None /\ ~HasDiscogsCom(LastOrganic[k].link)}

FirstCandidateHint == parseArtistAndTitleFromTitle(LastOrganic[Min(Candidates)].title)

NonMatching == {k \in 1..Len(LastOrganic) : ~HasDiscogsCom(LastOrganic[k].link)}

FirstNonMatchingHint == parseArtistAndTitleFromTitle(LastOrganic[Min(NonMatching)].title)

MaxTitleLen == 6

TitleSyms == {"x", " ", "(", ")", "by", "-", "LP"}

HintInit ==
    /\ event = [queryStringParameters |-> <<[query |-> <<"kind of blue">>]>>]
    /\ env = [SERPAPI_API_KEY |-> TRUE, DISCOGS_TOKEN |-> TRUE]
    /\ pc = "start"
    /\ searchSource = "unset"
    /\ chosen = None
    /\ discogsUrl = None
    /\ title = None
    /\ coverImage = None
    /\ debugInfo = <<>>
    /\ response = None
    /\ lastSerp = None
    /\ hist = <<>>
    /\ cur = 0
    /\ saved = <<>>
    /\ rawTitle \in SeqsUpTo(TitleSyms, MaxTitleLen)
    /\ parsedHint = None

\* Line 159: const parsed = parseArtistAndTitleFromTitle(hint.title)
ParseTitle ==
    /\ parsedHint = None
    /\ parsedHint' = <<parseArtistAndTitleFromTitle(rawTitle)>>
    /\ UNCHANGED <<event, env, pc, searchSource, chosen, discogsUrl, title, coverImage,
                   debugInfo, response, lastSerp, hist, cur, saved, rawTitle>>

\* Lines 163-167: if (parsed) the hint search is called with the quoted
\* artist and title.
HintSearchCall ==
    /\ parsedHint # None
    /\ parsedHint[1] # None
    /\ hist = <<>>
    /\ hist' = <<CallEv("hint", hintDiscogsQuery(parsedHint[1][1]), TRUE)>>
    /\ UNCHANGED <<event, env, pc, searchSource, chosen, discogsUrl, title, coverImage,
                   debugInfo, response, lastSerp, aux>>

HintNext == ParseTitle \/ HintSearchCall

HintSpec == HintInit /\ [][HintNext]_vars

\* A string that is not empty after trimming.
NonBlank(s) == \E i \in 1..Len(s) : ~IsWs(s[i])

\* The two quoted parts of a hint query: what stands between the opening
\* quote and the quote-space-quote, and between that and the closing quote.
QuotedArtist(call) ==
    LET k == CHOOSE k \in 1..Len(call) : call[k] = "\" \""
    IN  Sub(call, 3, k - 1)

QuotedTitle(call) ==
    LET k == CHOOSE k \in 1..Len(call) : call[k] = "\" \""
    IN  Sub(call, k + 1, Len(call) - 1)

\* C19: whatever the title, parseArtistAndTitleFromTitle returns null or an
\* artist and a title that are both non-empty after trimming, and every hint
\* search call quotes a non-empty artist and a non-empty title.
C19_NoPartialHint ==
    /\ (parsedHint # None /\ parsedHint[1] # None) =>
            /\ NonBlank(parsedHint[1][1].artist)
            /\ NonBlank(parsedHint[1][1].title)
    /\ \A i \in HistIdx :
            IsCall(hist[i], "hint") =>
                /\ NonBlank(QuotedArtist(hist[i].call))
                /\ NonBlank(QuotedTitle(hist[i].call))

\* A title that ends in white space, parsed to a hint whose search was called.
C19_Witness ==
    /\ rawTitle # None
    /\ IsWs(rawTitle[Len(rawTitle)])
    /\ parsedHint # None
    /\ parsedHint[1] # None
    /\ \E i \in HistIdx : IsCall(hist[i], "hint")

(***************************************************************************)
(* The handler when every call it awaits eventually returns or fails: an   *)
(* awaited promise that settles runs its continuation.                     *)
(***************************************************************************)

LiveSpec == Init /\ [][Next]_vars /\ WF_vars(Next)

HandlerStatuses == {200, 400, 404, 500}

\* C20: every invocation ends, with a response whose status is 200, 400, 404
\* or 500; the response, once made, is the only one (it never changes); the
\* handler never leaves without one.
C20_TerminatesWithOneResponse ==
    /\ <>Done
    /\ [](Done => (response # None /\ Status \in HandlerStatuses))
    /\ [](~Done => response = None)
    /\ [][response # None => response' = response]_vars

\* A response made by the catch: an answer of the wrong shape after two
\* searches.
C20_Witness ==
    /\ Done
    /\ Ended(500)
    /\ CallCount("fallback") = 1
    /\ \E i \in HistIdx : IsRecv(hist[i], "fallback") /\ hist[i].kind = "badshape"

(***************************************************************************)
(* Several invocations of the handler in one process.  Each call of the    *)
(* async function has its own parameters and locals (lines 104-129);       *)
(* process.env is the process's.  One invocation runs at a time, up to its *)
(* next await; then any invocation may run.  The variables of the handler  *)
(* are those of the invocation that runs, saved holds the others'.         *)
(***************************************************************************)

NumRuns == 2

ConcEvents ==
    {[queryStringParameters |-> <<[query |-> q]>>] :
        q \in {<<"kind of blue">>, <<"blue train">>}}

\* The parameters and locals of the invocation that runs.
Locals ==
    [event |-> event, pc |-> pc, searchSource |-> searchSource, chosen |-> chosen,
     discogsUrl |-> discogsUrl, title |-> title, coverImage |-> coverImage,
     debugInfo |-> debugInfo, response |-> response, lastSerp |-> lastSerp,
     hist |-> hist]

\* Those of an invocation that has not started.
FreshLocals(e) ==
    [event |-> e, pc |-> "start", searchSource |-> "unset", chosen |-> None,
     discogsUrl |-> None, title |-> None, coverImage |-> None,
     debugInfo |-> <<>>, response |-> None, lastSerp |-> None, hist |-> <<>>]

\* A slip: debugInfo declared at module level, one object for all invocations.
DebugInfoShared(own, current) == current

\* const debugInfo = {} inside the handler: the trace an invocation resumes
\* with is its own.
DebugInfoOf(own, current) == own

ConcInit ==
    /\ event \in ConcEvents
    /\ env = [SERPAPI_API_KEY |-> TRUE, DISCOGS_TOKEN |-> TRUE]
    /\ pc = "start"
    /\ searchSource = "unset"
    /\ chosen = None
    /\ discogsUrl = None
    /\ title = None
    /\ coverImage = None
    /\ debugInfo = <<>>
    /\ response = None
    /\ lastSerp = None
    /\ hist = <<>>
    /\ cur = 1
    /\ saved \in [2..NumRuns -> {FreshLocals(e) : e \in ConcEvents}]
    /\ rawTitle = None
    /\ parsedHint = None

\* The invocation that runs is at an await (or has not started, or has
\* ended), and invocation r runs next.
Resume(r) ==
    /\ r \in DOMAIN saved
    /\ cur' = r
    /\ saved' = [x \in (DOMAIN saved \ {r}) \cup {cur} |->
                    IF x = cur THEN Locals ELSE saved[x]]
    /\ event' = saved[r].event
    /\ pc' = saved[r].pc
    /\ searchSource' = saved[r].searchSource
    /\ chosen' = saved[r].chosen
    /\ discogsUrl' = saved[r].discogsUrl
    /\ title' = saved[r].title
    /\ coverImage' = saved[r].coverImage
    /\ debugInfo' = DebugInfoOf(saved[r].debugInfo, debugInfo)
    /\ response' = saved[r].response
    /\ lastSerp' = saved[r].lastSerp
    /\ hist' = saved[r].hist
    /\ UNCHANGED <<env, rawTitle, parsedHint>>

ConcNext == Next \/ \E r \in 1..NumRuns : Resume(r)

ConcSpec == ConcInit /\ [][ConcNext]_vars

\* The locals of every invocation, running or suspended.
AllLocals == {Locals} \cup {saved[r] : r \in DOMAIN saved}

QueryOf(a) == a.event.queryStringParameters[1].query

\* The trace entry with key k of trace dbg is v, and k stands once in it.
OneEntry(dbg, k, v) ==
    /\ \E i \in 1..Len(dbg) : dbg[i][1] = k /\ dbg[i][2] = v
    /\ Cardinality({i \in 1..Len(dbg) : dbg[i][1] = k}) = 1

\* The payload of a is made of a's own query, searchSource and trace, and
\* the trace names each key once and a's own queries.
OwnOutcome(a) ==
    (a.response # None /\ a.response[1].statusCode \in {200, 404}) =>
        LET body == a.response[1].body
        IN  /\ body.query = QueryOf(a)
            /\ body.searchSource = a.searchSource
            /\ body.debug = a.debugInfo
            /\ Cardinality(DebugKeys(body.debug)) = Len(body.debug)
            /\ OneEntry(body.debug, <<"primaryQuery">>, <<"site:discogs.com ">> \o QueryOf(a))
            /\ (<<"fallbackGoogleQuery">> \in DebugKeys(body.debug)) =>
                    OneEntry(body.debug, <<"fallbackGoogleQuery">>, QueryOf(a))

\* C16: with invocations interleaved at their awaits in any order, two
\* invocations with the same request that issued the same calls and got the
\* same answers are in the same state, trace, searchSource and response
\* included, whatever the other invocations did in between; and the payload
\* of each holds its own query, searchSource and trace only.
C16_RunsIndependent ==
    /\ \A a, b \in AllLocals : (a.event = b.event /\ a.hist = b.hist) => a = b
    /\ \A a \in AllLocals : OwnOutcome(a)

\* Two invocations with different queries, both suspended in the middle of
\* their searches, and then both ended with a payload that carries a trace.
C16_Witness ==
    /\ saved # <<>>
    /\ \E r \in DOMAIN saved :
            /\ saved[r].event # event
            /\ Done /\ Status \in {200, 404}
            /\ saved[r].pc = "done" /\ saved[r].response[1].statusCode \in {200, 404}
            /\ \E i \in HistIdx, j \in 1..Len(saved[r].hist) :
                    /\ IsCall(hist[i], "hint")
                    /\ IsCall(saved[r].hist[j], "fallback")

====
